---- MODULE Spec2Model ----
(***************************************************************************)
(* The local ("lite") crawler of webtranspose: Crawl.__init__,             *)
(* Crawl.crawl_worker and the local branch of Crawl.crawl                  *)
(* (src/src/webtranspose/crawl.py).                                        *)
(*                                                                         *)
(* A URL string is a sequence of tokens, e.g.                              *)
(*   http://a/x/1#s1  is  <<"http", "://", "a", "/", "x", "/", "1",        *)
(*                          "#", "s1">>                                    *)
(* and a glob pattern is a token sequence in which "*" matches any run of  *)
(* tokens.  Workers are asyncio tasks: a worker step runs from one await   *)
(* at which the task can be suspended to the next.                         *)
(***************************************************************************)
EXTENDS Integers, Sequences, FiniteSets, TLC

\* Bounds of the model.
MaxWorkers == 2
MaxPages == 2
MaxLinks == 3

VARIABLES
    base_url,        \* self.base_url
    allowed_urls,    \* self.allowed_urls
    banned_urls,     \* self.banned_urls
    max_pages,       \* self.max_pages
    n_workers,       \* self.n_workers
    crawl_id,        \* self.crawl_id
    output_dir,      \* self.output_dir
    render_js,       \* self.render_js
    queue,           \* self.queue._queue: the frontier, items [url, parent_urls]
    unfinished,      \* self.queue._unfinished_tasks
    visited_urls,    \* self.visited_urls: url -> file path
    failed_urls,     \* self.failed_urls
    ignored_urls,    \* self.ignored_urls
    leftover_queue,  \* crawl()'s leftover_queue
    ignored_queue,   \* crawl()'s ignored_queue
    files,           \* the page records on disk: file path -> record
    crawlPc,         \* where crawl() stands: "idle", "join", "gather", "returned";
                     \* with an API key "poll_first", "poll_run", "raised", "api_error"
    cancelled,       \* task.cancel() has been called on the workers
    wpc,             \* per worker task: where it stands
    curr,            \* per worker task: curr_url_data of the item in hand
    sidecars,        \* the metadata files on disk: file name -> content
    status_json,     \* what status() returned, if it was the latest call
    lookup,          \* how from_metadata() or get_crawl() ended, if the latest
    urls             \* what get_queued() returned, if it was the latest call

vars == <<base_url, allowed_urls, banned_urls, max_pages, n_workers, crawl_id,
          output_dir, render_js, queue, unfinished, visited_urls, failed_urls,
          ignored_urls, leftover_queue, ignored_queue, files, crawlPc,
          cancelled, wpc, curr, sidecars, status_json, lookup, urls>>

config == <<base_url, allowed_urls, banned_urls, max_pages, n_workers, crawl_id,
            output_dir, render_js>>

\* What crawl() and its workers leave alone, but for the metadata file.
calls == <<status_json, lookup, urls>>

\* Line 30: the default of output_dir.
DefaultDir == "webtranspose-out"

\* No call of from_metadata() or get_crawl() is the latest call.
NoLookup == [call |-> "none", crawl_id |-> "", result |-> ""]

-----------------------------------------------------------------------------
(* URL strings: urlparse, urlunparse, urljoin, fnmatch, _lint_url *)

Schemes == {"http", "mailto"}

\* The position of the first "#" of s, or 0.
FragmentAt(s) ==
    IF \E i \in 1..Len(s) : s[i] = "#"
    THEN CHOOSE i \in 1..Len(s) : s[i] = "#" /\ \A j \in 1..(i - 1) : s[j] # "#"
    ELSE 0

\* urllib.parse.urlparse: scheme, netloc, path and fragment of a URL string.
urlparse(url) ==
    LET hasNetloc == Len(url) >= 2 /\ url[2] = "://"
        rest == IF hasNetloc THEN SubSeq(url, 4, Len(url)) ELSE SubSeq(url, 3, Len(url))
        f == FragmentAt(rest)
    IN  [scheme   |-> url[1],
         netloc   |-> IF hasNetloc THEN url[3] ELSE "",
         path     |-> IF f = 0 THEN rest ELSE SubSeq(rest, 1, f - 1),
         fragment |-> IF f = 0 THEN <<>> ELSE SubSeq(rest, f + 1, Len(rest))]

\* urllib.parse.urlunparse.
urlunparse(p) ==
    <<p.scheme>>
      \o (IF p.netloc # "" THEN <<"://", p.netloc>> ELSE <<":">>)
      \o p.path
      \o (IF p.fragment # <<>> THEN <<"#">> \o p.fragment ELSE <<>>)

\* _lint_url: the URL without its fragment.
_lint_url(url) == urlunparse([urlparse(url) EXCEPT !.fragment = <<>>])

\* urllib.parse.urljoin(base, href) for an absolute href, an absolute-path
\* reference ("/p") and a fragment-only reference ("#s2").
urljoin(base, href) ==
    IF href[1] \in Schemes THEN href
    ELSE IF href[1] = "#"
         THEN urlunparse([urlparse(base) EXCEPT !.fragment = Tail(href)])
         ELSE LET f == FragmentAt(href)
              IN  urlunparse([urlparse(base) EXCEPT
                      !.path = IF f = 0 THEN href ELSE SubSeq(href, 1, f - 1),
                      !.fragment = IF f = 0 THEN <<>>
                                   ELSE SubSeq(href, f + 1, Len(href))])

\* fnmatch.fnmatch(name, pat) for patterns made of literal tokens and "*".
RECURSIVE fnmatch(_, _)
fnmatch(name, pat) ==
    IF pat = <<>> THEN name = <<>>
    ELSE IF Head(pat) = "*"
         THEN fnmatch(name, Tail(pat)) \/ (name # <<>> /\ fnmatch(Tail(name), pat))
         ELSE name # <<>> /\ Head(name) = Head(pat) /\ fnmatch(Tail(name), Tail(pat))

\* url.startswith("http")
StartsWithHttp(url) == url[1] = "http"

-----------------------------------------------------------------------------
(* The web the crawler runs against *)

Home == <<"http", "://", "a", "/">>
HomeSec1 == <<"http", "://", "a", "/", "#", "s1">>
PageX == <<"http", "://", "a", "/", "x", "/", "1">>
PageB == <<"http", "://", "b", "/", "y">>
MailZ == <<"mailto", ":", "z">>

BanPrivate == <<"http", "://", "a", "/", "x", "/", "*">>
AllowB == <<"http", "://", "b", "/", "*">>
AllowX1 == <<"http", "://", "a", "/", "x", "/", "1">>

\* A second site: the hub page /hub/k links to the k pages /l/1 .. /l/k,
\* which link to nothing.
Hub(k) == <<"http", "://", "s", "/", "hub", "/", ToString(k)>>
Leaf(i) == <<"http", "://", "s", "/", "l", "/", ToString(i)>>

\* The href attributes soup.find_all(href=True) yields for the page served at
\* a URL (a server never sees the fragment): the home page links to itself
\* by a fragment, to /x/1, to a page of another host and to a mail address;
\* /x/1 links back to the home page.
Hrefs(url) ==
    LET page == _lint_url(url) IN
    IF page = Home
    THEN { <<"#", "s2">>, <<"/", "x", "/", "1", "#", "top">>, PageB, MailZ }
    ELSE IF page = PageX THEN { <<"/">> }
    ELSE IF \E k \in 1..MaxLinks : page = Hub(k)
    THEN { Leaf(i) : i \in 1..(CHOOSE k \in 1..MaxLinks : page = Hub(k)) }
    ELSE {}

-----------------------------------------------------------------------------
(* Crawl.__init__ *)

NoItem == [url |-> <<>>, parent_urls |-> <<>>]

Workers == 1..n_workers

\* Lines 52-75: the frontier holds the seed item, one unfinished task.
Constructed ==
    /\ queue = <<[url |-> base_url, parent_urls |-> <<>>]>>
    /\ unfinished = 1
    /\ visited_urls = <<>>
    /\ failed_urls = {}
    /\ ignored_urls = <<>>
    /\ leftover_queue = <<>>
    /\ ignored_queue = <<>>
    /\ files = <<>>
    /\ crawlPc = "idle"
    /\ cancelled = FALSE
    /\ wpc = [w \in 1..n_workers |-> "none"]
    /\ curr = [w \in 1..n_workers |-> NoItem]
    /\ status_json = <<>>
    /\ lookup = NoLookup
    /\ urls = <<>>

\* A Crawl of the first site, constructed.
Init ==
    /\ base_url \in {Home, HomeSec1}
    /\ allowed_urls \in {{}, {AllowB, AllowX1}}
    /\ banned_urls \in {{}, {BanPrivate}}
    /\ max_pages \in 0..MaxPages
    /\ n_workers \in 1..MaxWorkers
    /\ crawl_id = "c1"
    /\ output_dir = DefaultDir
    /\ render_js = FALSE
    /\ sidecars = <<>>
    /\ Constructed

\* A Crawl of a hub page, constructed.
InitHub ==
    /\ base_url \in { Hub(k) : k \in 1..MaxLinks }
    /\ allowed_urls = {}
    /\ banned_urls = {}
    /\ max_pages \in 0..(MaxLinks + 1)
    /\ n_workers \in 1..MaxWorkers
    /\ crawl_id = "c1"
    /\ output_dir = DefaultDir
    /\ render_js = FALSE
    /\ sidecars = <<>>
    /\ Constructed

-----------------------------------------------------------------------------
(* Crawl.crawl_worker *)

base_url_netloc == urlparse(base_url).netloc

IsBanned(url) == \E banned \in banned_urls : fnmatch(url, banned)

IsAllowed(url) == \E allowed \in allowed_urls : fnmatch(url, allowed)

\* Crawlable without the check of the visited count.
CrawlableNoCap(url, visited) ==
    /\ \/ (urlparse(url).netloc = base_url_netloc /\ ~IsBanned(url))
       \/ IsAllowed(url)
    /\ url \notin DOMAIN visited

\* Crawlable with a banned pattern excluding a URL whatever is allowed.
CrawlableBanFirst(url, visited) ==
    /\ ~IsBanned(url)
    /\ \/ urlparse(url).netloc = base_url_netloc
       \/ IsAllowed(url)
    /\ url \notin DOMAIN visited
    /\ Cardinality(DOMAIN visited) < max_pages

\* Lines 134-144: the condition under which the dequeued item is fetched.
Crawlable(url, visited) ==
    /\ \/ (urlparse(url).netloc = base_url_netloc /\ ~IsBanned(url))
       \/ IsAllowed(url)
    /\ url \notin DOMAIN visited
    /\ Cardinality(DOMAIN visited) < max_pages

\* The elif branch if it kept only items of the origin of base_url.
KeptForLaterSameOrigin(url, visited) ==
    /\ url \notin DOMAIN visited
    /\ urlparse(url).netloc = base_url_netloc

\* Lines 202-205: the condition of the elif branch, which keeps the item for
\* a later run.
KeptForLater(url, visited) ==
    /\ url \notin DOMAIN visited
    /\ \/ urlparse(url).netloc = base_url_netloc
       \/ IsAllowed(url)

\* Line 129: the worker's loop condition.
LoopCondition(q) == Cardinality(DOMAIN visited_urls) < max_pages \/ q # <<>>

\* Lines 129-216 from the top of the loop to the next await at which the
\* task is suspended: items routed to leftover or ignored are acknowledged
\* and the loop goes on without a suspension; it ends with the worker out
\* of the loop, blocked in queue.get() on an empty queue, or awaiting the
\* fetch of a crawlable item.  q, lo, ig and u are the frontier, the
\* leftover queue, the ignored queue and the unfinished-task count so far.
RECURSIVE RunLoop(_, _, _, _)
RunLoop(q, lo, ig, u) ==
    IF ~LoopCondition(q)
    THEN [pc |-> "exited", item |-> NoItem, queue |-> q, leftover |-> lo,
          ignored |-> ig, unfinished |-> u]
    ELSE IF q = <<>>
    THEN [pc |-> "waiting", item |-> NoItem, queue |-> q, leftover |-> lo,
          ignored |-> ig, unfinished |-> u]
    ELSE LET curr_url_data == Head(q)
             curr_url == curr_url_data.url
         IN  IF Crawlable(curr_url, visited_urls)
             THEN [pc |-> "fetching", item |-> curr_url_data, queue |-> Tail(q),
                   leftover |-> lo, ignored |-> ig, unfinished |-> u]
             ELSE IF KeptForLater(curr_url, visited_urls)
             THEN RunLoop(Tail(q), Append(lo, curr_url_data), ig, u - 1)
             ELSE RunLoop(Tail(q), lo, Append(ig, curr_url), u - 1)

\* The worker w runs its loop from the top, u being the unfinished-task count
\* it starts from.
LoopFrom(w, u) ==
    LET r == RunLoop(queue, leftover_queue, ignored_queue, u)
    IN  /\ queue' = r.queue
        /\ leftover_queue' = r.leftover
        /\ ignored_queue' = r.ignored
        /\ unfinished' = r.unfinished
        /\ wpc' = [wpc EXCEPT ![w] = r.pc]
        /\ curr' = [curr EXCEPT ![w] = r.item]

\* A created task gets to run (line 127), the tasks starting in the order of
\* their creation (the event loop runs what is ready first in, first out);
\* or a task suspended while its AsyncClient closes after a failed fetch
\* (lines 150-156) resumes.
WorkerRun(w) ==
    /\ \/ wpc[w] = "created" /\ \A v \in 1..(w - 1) : wpc[v] # "created"
       \/ wpc[w] = "closing"
    /\ ~cancelled
    /\ LoopFrom(w, unfinished)
    /\ UNCHANGED <<config, calls, sidecars, visited_urls, failed_urls,
                   ignored_urls, files, crawlPc, cancelled>>

\* Line 130: a task blocked in queue.get() is woken by an item.
WorkerWake(w) ==
    /\ wpc[w] = "waiting"
    /\ ~cancelled
    /\ queue # <<>>
    /\ LoopFrom(w, unfinished)
    /\ UNCHANGED <<config, calls, sidecars, visited_urls, failed_urls,
                   ignored_urls, files, crawlPc, cancelled>>

\* Lines 145-149: the file a page record goes to.
Filepath(url) == <<output_dir, base_url_netloc, url>>

\* A failed fetch that records nothing.
FailedAfterErrorDropped(failed, url) == failed

\* Lines 153-156: what a failed fetch adds to failed_urls.
FailedAfterError(failed, url) == failed \cup {url}

\* Lines 150-156: client.get raises.
FetchFail(w) ==
    /\ wpc[w] = "fetching"
    /\ failed_urls' = FailedAfterError(failed_urls, curr[w].url)
    /\ unfinished' = unfinished - 1
    /\ wpc' = [wpc EXCEPT ![w] = "closing"]
    /\ curr' = [curr EXCEPT ![w] = NoItem]
    /\ UNCHANGED <<config, calls, sidecars, queue, visited_urls, ignored_urls,
                   leftover_queue, ignored_queue, files, crawlPc, cancelled>>

\* Lines 167-174: the page's links, resolved against base_url and linted.
ChildUrls(url) == { _lint_url(urljoin(base_url, href)) : href \in Hrefs(url) }

\* set(seq): the members of a list.
Range(seq) == { seq[i] : i \in 1..Len(seq) }

\* The orders in which list(set(...)) can yield the members of S.
Orders(S) ==
    { o \in [1..Cardinality(S) -> S] : \A i, j \in 1..Cardinality(S) : o[i] = o[j] => i = j }

\* The items if a child recorded only the page it was found on.
ChildItemsLastParent(order, item) ==
    [i \in 1..Len(order) |-> [url |-> order[i], parent_urls |-> <<item.url>>]]

\* Lines 175-182: the items enqueued for the children, in the order given.
ChildItems(order, item) ==
    [i \in 1..Len(order) |->
        [url |-> order[i], parent_urls |-> Append(item.parent_urls, item.url)]]

\* map with key k set to v.
Put(map, k, v) == [x \in DOMAIN map \cup {k} |-> IF x = k THEN v ELSE map[x]]

\* The children if the except branch kept what the body linked to.
ParsedChildUrlsKept(parsed, url) == ChildUrls(url)

\* Lines 161-185: child_urls after the try block: the linted links of the
\* body, or [] when parsing raised.
ParsedChildUrls(parsed, url) == IF parsed THEN ChildUrls(url) ELSE {}

\* Lines 158-200: client.get returns.  The body parses or not; the page
\* record is written, or open/json.dump raises and the task ends there.
FetchDone(w) ==
    /\ wpc[w] = "fetching"
    /\ \E parsed \in BOOLEAN, written \in BOOLEAN :
        LET item == curr[w]
            child_urls == ParsedChildUrls(parsed, item.url)
            page_type == IF parsed THEN "html" ELSE "other"
        IN  /\ \E order \in Orders({u \in child_urls : StartsWithHttp(u)}) :
                /\ queue' = queue \o ChildItems(order, item)
                /\ unfinished' = unfinished + Len(order)
            /\ visited_urls' = Put(visited_urls, item.url, Filepath(item.url))
            /\ files' = IF written
                        THEN Put(files, Filepath(item.url),
                                 [url |-> item.url, type |-> page_type,
                                  parent_urls |-> item.parent_urls,
                                  child_urls |-> child_urls])
                        ELSE files
            /\ wpc' = [wpc EXCEPT ![w] = IF written THEN "recorded" ELSE "raised"]
            /\ curr' = IF written THEN curr ELSE [curr EXCEPT ![w] = NoItem]
    /\ UNCHANGED <<config, calls, sidecars, failed_urls, ignored_urls,
                   leftover_queue, ignored_queue, crawlPc, cancelled>>

\* Line 216 after a recorded page, then the loop again.
WorkerAck(w) ==
    /\ wpc[w] = "recorded"
    /\ LoopFrom(w, unfinished - 1)
    /\ UNCHANGED <<config, calls, sidecars, visited_urls, failed_urls,
                   ignored_urls, files, crawlPc, cancelled>>

\* A task that task.cancel() reaches while it is suspended, or before it
\* ever ran, ends with CancelledError.
WorkerCancelled(w) ==
    /\ cancelled
    /\ wpc[w] \in {"created", "waiting", "closing"}
    /\ wpc' = [wpc EXCEPT ![w] = "cancelled"]
    /\ UNCHANGED <<config, calls, sidecars, queue, unfinished, visited_urls,
                   failed_urls, ignored_urls, leftover_queue, ignored_queue,
                   files, crawlPc, cancelled, curr>>

-----------------------------------------------------------------------------
(* Crawl.to_metadata *)

\* Line 607: the name of the metadata file of a crawl.
MetadataFile(dir, id) == <<dir, id>>

\* The metadata file written before self.queue is reassigned.
to_metadataEarly(q, ign, cap) ==
    Put(sidecars, MetadataFile(output_dir, crawl_id),
        [crawl_id |-> crawl_id,
         n_workers |-> n_workers,
         base_url |-> base_url,
         max_pages |-> cap,
         visited_urls |-> visited_urls,
         ignored_urls |-> ign,
         render_js |-> render_js,
         queue |-> queue,
         banned_urls |-> banned_urls,
         allowed_urls |-> allowed_urls,
         output_dir |-> output_dir])

\* Lines 602-622: the metadata files after to_metadata() of a Crawl whose
\* frontier is q, whose ignored URLs are ign and whose max_pages is cap.
to_metadata(q, ign, cap) ==
    Put(sidecars, MetadataFile(output_dir, crawl_id),
        [crawl_id |-> crawl_id,
         n_workers |-> n_workers,
         base_url |-> base_url,
         max_pages |-> cap,
         visited_urls |-> visited_urls,
         ignored_urls |-> ign,
         render_js |-> render_js,
         queue |-> q,
         banned_urls |-> banned_urls,
         allowed_urls |-> allowed_urls,
         output_dir |-> output_dir])

\* A call of to_metadata().
SaveMetadata ==
    /\ crawlPc \in {"idle", "returned"}
    /\ sidecars' = to_metadata(queue, ignored_urls, max_pages)
    /\ status_json' = <<>>
    /\ urls' = <<>>
    /\ lookup' = NoLookup
    /\ UNCHANGED <<config, queue, unfinished, visited_urls, failed_urls,
                   ignored_urls, leftover_queue, ignored_queue, files,
                   crawlPc, cancelled, wpc, curr>>

-----------------------------------------------------------------------------
(* Crawl.crawl, local branch *)

\* A join that waits only for the frontier to be empty, not for the items
\* taken from it to be acknowledged.
JoinReleasedOnEmpty == queue = <<>>

\* Line 291: queue.join() returns once no put item is unacknowledged.
JoinReleased == unfinished = 0

\* Lines 268-294: the queues and the tasks are created; queue.join() returns
\* at once when nothing is unfinished, and then the tasks are cancelled
\* before any of them ran.
CrawlBegin ==
    /\ leftover_queue' = <<>>
    /\ ignored_queue' = <<>>
    /\ wpc' = [w \in Workers |-> "created"]
    /\ curr' = [w \in Workers |-> NoItem]
    /\ crawlPc' = IF JoinReleased THEN "gather" ELSE "join"
    /\ cancelled' = JoinReleased
    /\ status_json' = <<>>
    /\ urls' = <<>>
    /\ lookup' = NoLookup
    /\ UNCHANGED <<config, sidecars, queue, unfinished, visited_urls,
                   failed_urls, ignored_urls, files>>

\* crawl() is called on a Crawl that has not run yet.
CrawlStart == crawlPc = "idle" /\ CrawlBegin

\* crawl() is called again on the Crawl it returned.
CrawlAgain == crawlPc = "returned" /\ CrawlBegin

\* Lines 291-293: queue.join() returns and every task is cancelled.
CrawlJoined ==
    /\ crawlPc = "join"
    /\ JoinReleased
    /\ crawlPc' = "gather"
    /\ cancelled' = TRUE
    /\ UNCHANGED <<config, calls, sidecars, queue, unfinished, visited_urls,
                   failed_urls, ignored_urls, leftover_queue, ignored_queue,
                   files, wpc, curr>>

Terminated(w) == wpc[w] \in {"exited", "cancelled", "raised"}

\* Lines 294-297, 313: gather returns when every task has ended; the leftover
\* queue becomes the frontier and the ignored queue's list the ignored URLs,
\* and the metadata file is written.
CrawlFinish ==
    /\ crawlPc = "gather"
    /\ \A w \in Workers : Terminated(w)
    /\ queue' = leftover_queue
    /\ unfinished' = Len(leftover_queue)
    /\ ignored_urls' = ignored_queue
    /\ crawlPc' = "returned"
    /\ sidecars' = to_metadata(leftover_queue, ignored_queue, max_pages)
    /\ UNCHANGED <<config, calls, visited_urls, failed_urls, leftover_queue,
                   ignored_queue, files, cancelled, wpc, curr>>

-----------------------------------------------------------------------------

WorkerStep(w) ==
    \/ WorkerRun(w)
    \/ WorkerWake(w)
    \/ FetchFail(w)
    \/ FetchDone(w)
    \/ WorkerAck(w)
    \/ WorkerCancelled(w)

\* The steps of a local crawl() and of its worker tasks.
RunNext ==
    \/ CrawlStart
    \/ CrawlJoined
    \/ CrawlFinish
    \/ \E w \in Workers : WorkerRun(w)
    \/ \E w \in Workers : WorkerWake(w)
    \/ \E w \in Workers : FetchFail(w)
    \/ \E w \in Workers : FetchDone(w)
    \/ \E w \in Workers : WorkerAck(w)
    \/ \E w \in Workers : WorkerCancelled(w)

Next == RunNext

\* A Crawl of the first site seeded with a fragment URL, with every worker
\* and room for one page more than the largest cap of Init.
InitRace ==
    /\ base_url = HomeSec1
    /\ allowed_urls = {}
    /\ banned_urls = {}
    /\ max_pages = MaxPages + 1
    /\ n_workers = MaxWorkers
    /\ crawl_id = "c1"
    /\ output_dir = DefaultDir
    /\ render_js = FALSE
    /\ sidecars = <<>>
    /\ Constructed

SpecRace == InitRace /\ [][Next]_vars

-----------------------------------------------------------------------------
(* Crawl.set_max_pages *)

\* Lines 428-430: the cap is set and the metadata file written.
SetMaxPages(new_max_pages) ==
    /\ crawlPc \in {"idle", "returned"}
    /\ max_pages' = new_max_pages
    /\ sidecars' = to_metadata(queue, ignored_urls, new_max_pages)
    /\ status_json' = <<>>
    /\ urls' = <<>>
    /\ lookup' = NoLookup
    /\ UNCHANGED <<base_url, allowed_urls, banned_urls, n_workers, crawl_id,
                   output_dir, render_js, queue, unfinished, visited_urls,
                   failed_urls, ignored_urls, leftover_queue, ignored_queue,
                   files, crawlPc, cancelled, wpc, curr>>

\* Lines 360-362: the allowed patterns are set and the metadata file written.
SetAllowedUrls(new_allowed_urls) ==
    /\ crawlPc \in {"idle", "returned"}
    /\ allowed_urls' = new_allowed_urls
    /\ sidecars' =
         Put(sidecars, MetadataFile(output_dir, crawl_id),
             [to_metadata(queue, ignored_urls, max_pages)
                  [MetadataFile(output_dir, crawl_id)]
              EXCEPT !.allowed_urls = new_allowed_urls])
    /\ status_json' = <<>>
    /\ urls' = <<>>
    /\ lookup' = NoLookup
    /\ UNCHANGED <<base_url, banned_urls, max_pages, n_workers, crawl_id,
                   output_dir, render_js, queue, unfinished, visited_urls,
                   failed_urls, ignored_urls, leftover_queue, ignored_queue,
                   files, crawlPc, cancelled, wpc, curr>>

\* Lines 385-387: the banned patterns are set and the metadata file written.
SetBannedUrls(new_banned_urls) ==
    /\ crawlPc \in {"idle", "returned"}
    /\ banned_urls' = new_banned_urls
    /\ sidecars' =
         Put(sidecars, MetadataFile(output_dir, crawl_id),
             [to_metadata(queue, ignored_urls, max_pages)
                  [MetadataFile(output_dir, crawl_id)]
              EXCEPT !.banned_urls = new_banned_urls])
    /\ status_json' = <<>>
    /\ urls' = <<>>
    /\ lookup' = NoLookup
    /\ UNCHANGED <<base_url, allowed_urls, max_pages, n_workers, crawl_id,
                   output_dir, render_js, queue, unfinished, visited_urls,
                   failed_urls, ignored_urls, leftover_queue, ignored_queue,
                   files, crawlPc, cancelled, wpc, curr>>

-----------------------------------------------------------------------------
(* Crawl.status *)

\* The counts if num_ignored counted the distinct ignored URLs.
StatusJsonDistinctIgnored ==
    [num_visited |-> Cardinality(DOMAIN visited_urls),
     num_ignored |-> Cardinality(Range(ignored_urls)),
     num_failed |-> Cardinality(failed_urls),
     num_queued |-> Len(queue)]

\* Lines 451-463: the dict status() builds for a local Crawl.
StatusJson ==
    [crawl_id |-> crawl_id,
     loc |-> "local",
     base_url |-> base_url,
     max_pages |-> max_pages,
     num_visited |-> Cardinality(DOMAIN visited_urls),
     num_ignored |-> Len(ignored_urls),
     num_failed |-> Cardinality(failed_urls),
     num_queued |-> Len(queue),
     banned_urls |-> banned_urls,
     allowed_urls |-> allowed_urls,
     n_workers |-> n_workers]

\* Lines 450-464: status() of a local Crawl returns the dict.
Status ==
    /\ crawlPc \in {"idle", "returned"}
    /\ status_json' = <<StatusJson>>
    /\ urls' = <<>>
    /\ lookup' = NoLookup
    /\ UNCHANGED <<config, sidecars, queue, unfinished, visited_urls,
                   failed_urls, ignored_urls, leftover_queue, ignored_queue,
                   files, crawlPc, cancelled, wpc, curr>>

-----------------------------------------------------------------------------
(* Crawl.get_queued *)

\* Lines 327-332: the items get_nowait() takes, at most n of them.
Taken(n) == SubSeq(queue, 1, IF n < Len(queue) THEN n ELSE Len(queue))

\* Lines 325-335: get_queued(n) of a local Crawl: the items taken from the
\* front are put back by put_nowait, which appends them and counts each as a
\* new unfinished task.  The surplus of unfinished tasks is kept within
\* MaxLinks to keep the state space finite.
GetQueued(n) ==
    /\ crawlPc \in {"idle", "returned"}
    /\ unfinished + Len(Taken(n)) <= Len(queue) + MaxLinks
    /\ queue' = SubSeq(queue, Len(Taken(n)) + 1, Len(queue)) \o Taken(n)
    /\ unfinished' = unfinished + Len(Taken(n))
    /\ urls' = <<Taken(n)>>
    /\ status_json' = <<>>
    /\ lookup' = NoLookup
    /\ UNCHANGED <<config, sidecars, visited_urls, failed_urls, ignored_urls,
                   leftover_queue, ignored_queue, files, crawlPc, cancelled,
                   wpc, curr>>

\* A Crawl of the first site with a foreign page allowed, on which
\* get_queued, status and the setters are called between runs.
InitQueue ==
    /\ base_url = Home
    /\ allowed_urls = {AllowB, AllowX1}
    /\ banned_urls = {}
    /\ max_pages \in 0..MaxPages
    /\ n_workers \in 1..MaxWorkers
    /\ crawl_id = "c1"
    /\ output_dir = DefaultDir
    /\ render_js = FALSE
    /\ sidecars = <<>>
    /\ Constructed

NextQueue ==
    \/ RunNext
    \/ CrawlAgain
    \/ \E n \in 0..MaxPages : GetQueued(n)
    \/ Status
    \/ \E new_max_pages \in 0..MaxPages : SetMaxPages(new_max_pages)
    \/ \E new_allowed_urls \in {{}, {AllowB, AllowX1}} :
          SetAllowedUrls(new_allowed_urls)
    \/ \E new_banned_urls \in {{}, {BanPrivate}} :
          SetBannedUrls(new_banned_urls)

SpecQueue == InitQueue /\ [][NextQueue]_vars

-----------------------------------------------------------------------------
(* Crawl.crawl, cloud branch *)

\* What the service can answer to v1/crawl/get: the counts and the cap.
RemoteStatuses ==
    [num_queued : 0..MaxPages, num_visited : 0..MaxPages,
     num_ignored : 0..1, num_failed : 0..1, max_pages : 1..MaxPages]

\* Lines 301, 307: nothing queued, visited or ignored is reported.
NothingReported(status) ==
    status.num_queued + status.num_visited + status.num_ignored = 0

\* Lines 310-313: the second loop sleeps, or crawl() returns.
AfterStarted(status) ==
    IF status.num_queued > 0 /\ status.num_visited < status.max_pages
    THEN "poll_run"
    ELSE "returned"

\* Lines 301-313 for the status just read while nothing had been reported:
\* the first loop sleeps again, or the test at lines 305-308 is made and then
\* the second loop is entered.
AfterFirst(status) ==
    IF NothingReported(status) THEN "poll_first"
    ELSE IF status.num_failed > 0 /\ NothingReported(status) THEN "raised"
    ELSE AfterStarted(status)

\* crawl() with an API key up to its first sleep, lines 299-313: queue_crawl
\* creates the crawl on the service, which names it, and resumes it; then the
\* status is read.  A request the service does not answer with 200 raises.
CloudCrawl ==
    /\ crawlPc \in {"idle", "returned"}
    /\ crawl_id' = "r1"
    /\ \/ /\ crawlPc' = "api_error"
          /\ status_json' = <<>>
       \/ \E status \in RemoteStatuses :
            /\ status_json' = <<status>>
            /\ crawlPc' = AfterFirst(status)
    /\ lookup' = NoLookup
    /\ urls' = <<>>
    /\ UNCHANGED <<base_url, allowed_urls, banned_urls, max_pages, n_workers,
                   output_dir, render_js, sidecars, queue, unfinished,
                   visited_urls, failed_urls, ignored_urls, leftover_queue,
                   ignored_queue, files, cancelled, wpc, curr>>

\* Lines 302-303 and 311-312: the sleep ends and the status is read again.
CloudPoll ==
    /\ crawlPc \in {"poll_first", "poll_run"}
    /\ \/ /\ crawlPc' = "api_error"
          /\ status_json' = <<>>
       \/ \E status \in RemoteStatuses :
            /\ status_json' = <<status>>
            /\ crawlPc' = IF crawlPc = "poll_first" THEN AfterFirst(status)
                          ELSE AfterStarted(status)
    /\ UNCHANGED <<config, lookup, urls, sidecars, queue, unfinished,
                   visited_urls, failed_urls, ignored_urls, leftover_queue,
                   ignored_queue, files, cancelled, wpc, curr>>

\* A Crawl constructed with an API key: no crawl_id until the service names
\* the crawl.
InitCloud ==
    /\ base_url = Home
    /\ allowed_urls = {}
    /\ banned_urls = {}
    /\ max_pages \in 1..MaxPages
    /\ n_workers = 1
    /\ crawl_id = "None"
    /\ output_dir = DefaultDir
    /\ render_js = FALSE
    /\ sidecars = <<>>
    /\ Constructed

NextCloud ==
    \/ CloudCrawl
    \/ CloudPoll

SpecCloud == InitCloud /\ [][NextCloud]_vars

-----------------------------------------------------------------------------
(* Crawl.from_metadata, get_crawl *)

\* The content of a file that json.load() rejects.
Malformed == [malformed |-> TRUE]

\* The crawl ids asked for: a malformed file, this crawl, no file.
CrawlIds == {"c0", "c1", "c2"}

\* from_metadata(id, dir) if every failure to read the file were reported as
\* a missing file.
from_metadataAnyFailure(id, dir) ==
    IF MetadataFile(dir, id) \notin DOMAIN sidecars THEN "FileNotFoundError"
    ELSE IF sidecars[MetadataFile(dir, id)] = Malformed THEN "FileNotFoundError"
    ELSE "Crawl"

\* Lines 636-654: how from_metadata(id, dir) ends: open() raises when the file
\* is absent, json.load() when it is not JSON, otherwise a Crawl is returned.
from_metadata(id, dir) ==
    IF MetadataFile(dir, id) \notin DOMAIN sidecars THEN "FileNotFoundError"
    ELSE IF sidecars[MetadataFile(dir, id)] = Malformed THEN "JSONDecodeError"
    ELSE "Crawl"

\* The frontier if the queue the constructor seeded were kept.
RestoredQueueWithSeed(metadata) ==
    <<[url |-> metadata.base_url, parent_urls |-> <<>>]>> \o metadata.queue

\* Lines 651-653: a new queue, then put_nowait of every recorded item.
RestoredQueue(metadata) ==
    [i \in 1..Len(metadata.queue) |-> metadata.queue[i]]

\* Lines 639-654: the Crawl built from the metadata: the constructor's fresh
\* state, then crawl_id, visited_urls, ignored_urls = set(...) and a new
\* queue filled by put_nowait in the recorded order.
Restored(metadata) ==
    /\ base_url' = metadata.base_url
    /\ allowed_urls' = metadata.allowed_urls
    /\ banned_urls' = metadata.banned_urls
    /\ n_workers' = metadata.n_workers
    /\ max_pages' = metadata.max_pages
    /\ render_js' = metadata.render_js
    /\ output_dir' = metadata.output_dir
    /\ crawl_id' = metadata.crawl_id
    /\ visited_urls' = metadata.visited_urls
    /\ failed_urls' = {}
    /\ ignored_urls' \in Orders(Range(metadata.ignored_urls))
    /\ queue' = RestoredQueue(metadata)
    /\ unfinished' = Len(RestoredQueue(metadata))
    /\ leftover_queue' = <<>>
    /\ ignored_queue' = <<>>
    /\ crawlPc' = "idle"
    /\ cancelled' = FALSE
    /\ wpc' = [w \in 1..metadata.n_workers |-> "none"]
    /\ curr' = [w \in 1..metadata.n_workers |-> NoItem]
    /\ UNCHANGED <<files, sidecars>>

\* No Crawl is constructed: the call raised, or went to the remote service.
NothingConstructed ==
    UNCHANGED <<config, sidecars, queue, unfinished, visited_urls, failed_urls,
                ignored_urls, leftover_queue, ignored_queue, files, crawlPc,
                cancelled, wpc, curr>>

\* Crawl.from_metadata(id, dir), lines 624-654.
FromMetadata(id, dir) ==
    /\ crawlPc \in {"idle", "returned"}
    /\ status_json' = <<>>
    /\ urls' = <<>>
    /\ lookup' = [call |-> "from_metadata", crawl_id |-> id,
                  result |-> from_metadata(id, dir)]
    /\ IF from_metadata(id, dir) = "Crawl"
       THEN Restored(sidecars[MetadataFile(dir, id)])
       ELSE NothingConstructed

\* get_crawl(id), lines 830-833: FileNotFoundError is answered by from_cloud.
GetCrawl(id) ==
    /\ crawlPc \in {"idle", "returned"}
    /\ status_json' = <<>>
    /\ urls' = <<>>
    /\ lookup' = [call |-> "get_crawl", crawl_id |-> id,
                  result |-> IF from_metadata(id, DefaultDir) = "FileNotFoundError"
                             THEN "from_cloud"
                             ELSE from_metadata(id, DefaultDir)]
    /\ IF from_metadata(id, DefaultDir) = "Crawl"
       THEN Restored(sidecars[MetadataFile(DefaultDir, id)])
       ELSE NothingConstructed

\* A Crawl of the first site that is run, reconfigured and run again.
InitApi ==
    /\ base_url = Home
    /\ allowed_urls \in {{}, {AllowB, AllowX1}}
    /\ banned_urls \in {{}, {BanPrivate}}
    /\ max_pages \in 0..MaxPages
    /\ n_workers \in 1..MaxWorkers
    /\ crawl_id = "c1"
    /\ output_dir = DefaultDir
    /\ render_js \in BOOLEAN
    /\ sidecars = (MetadataFile(DefaultDir, "c0") :> Malformed)
    /\ Constructed

NextApi ==
    \/ RunNext
    \/ CrawlAgain
    \/ SaveMetadata
    \/ \E new_max_pages \in 0..MaxPages : SetMaxPages(new_max_pages)
    \/ Status
    \/ \E id \in CrawlIds : FromMetadata(id, DefaultDir)
    \/ \E id \in CrawlIds : GetCrawl(id)

SpecApi == InitApi /\ [][NextApi]_vars

Spec == Init /\ [][Next]_vars

SpecHub == InitHub /\ [][Next]_vars

-----------------------------------------------------------------------------
(* Properties *)

NumVisited == Cardinality(DOMAIN visited_urls)

\* C1: in every state of a local crawl that started with nothing visited, the
\* number of visited URLs is at most max_pages + (n_workers - 1); with one
\* worker that is max_pages.
C1_VisitedCap == NumVisited <= max_pages + (n_workers - 1)

\* Two workers fetched at once below the cap and the run ended one page over it.
C1_Witness ==
    /\ crawlPc = "returned"
    /\ n_workers = 2
    /\ max_pages = 2
    /\ NumVisited = max_pages + 1

\* The scope of the crawl, as the specification words it: on the origin of
\* base_url and matched by no banned pattern, or matched by an allowed one.
InScope(url) ==
    \/ /\ urlparse(url).netloc = urlparse(base_url).netloc
       /\ \A banned \in banned_urls : ~fnmatch(url, banned)
    \/ \E allowed \in allowed_urls : fnmatch(url, allowed)

FetchExpected(url) ==
    /\ InScope(url)
    /\ url \notin DOMAIN visited_urls
    /\ NumVisited < max_pages

\* C2: a worker issues a fetch for a dequeued item exactly when the URL is in
\* scope, is not visited and the visited count is below max_pages at the
\* dequeue: every item a step hands to a fetch satisfies this, and no item a
\* step routes to leftover or ignored does.
C2_FetchIffCrawlable ==
    [][ /\ \A w \in DOMAIN wpc :
              (wpc[w] # "fetching" /\ wpc'[w] = "fetching")
                  => FetchExpected(curr'[w].url)
        /\ \A i \in (Len(leftover_queue) + 1)..Len(leftover_queue') :
              ~FetchExpected(leftover_queue'[i].url)
        /\ \A i \in (Len(ignored_queue) + 1)..Len(ignored_queue') :
              ~FetchExpected(ignored_queue'[i])
      ]_vars

\* A banned URL that an allowed pattern matches is being fetched, and a URL of
\* another origin that an allowed pattern matches has been visited.
C2_Witness ==
    /\ \E w \in DOMAIN wpc :
          /\ wpc[w] = "fetching"
          /\ curr[w].url = PageX
          /\ IsBanned(PageX)
    /\ PageB \in DOMAIN visited_urls

\* Out of scope: of another origin and matched by no allowed pattern, or on
\* the base origin but matched by a banned pattern and by no allowed one.
OutOfScope(url) ==
    /\ \A allowed \in allowed_urls : ~fnmatch(url, allowed)
    /\ \/ urlparse(url).netloc # urlparse(base_url).netloc
       \/ \E banned \in banned_urls : fnmatch(url, banned)

\* C3: a dequeued URL that is out of scope is routed to ignored, never to the
\* leftover frontier and never to a fetch.
C3_OutOfScopeIgnored ==
    /\ \A i \in 1..Len(leftover_queue) : ~OutOfScope(leftover_queue[i].url)
    /\ \A w \in DOMAIN wpc : wpc[w] = "fetching" => ~OutOfScope(curr[w].url)

\* C4: after a completed local run visited, failed and ignored are pairwise
\* disjoint.
C4_Partition ==
    crawlPc = "returned" =>
        /\ DOMAIN visited_urls \cap failed_urls = {}
        /\ DOMAIN visited_urls \cap Range(ignored_urls) = {}
        /\ failed_urls \cap Range(ignored_urls) = {}

\* C5: visited never holds two keys that are equal once the fragment is
\* removed, whether they came as the seed or as links.
C5_FragmentDedup ==
    \A u, v \in DOMAIN visited_urls : _lint_url(u) = _lint_url(v) => u = v

\* C6: a local crawl() whose seed fails to fetch, so that nothing is visited,
\* ignored or queued, does not return a Crawl (it raises).
C6_FirstPageFailureRaises ==
    ~ /\ crawlPc = "returned"
      /\ failed_urls = {base_url}
      /\ NumVisited = 0
      /\ Len(ignored_urls) = 0
      /\ Len(queue) = 0

\* C7: when the fetch of a dequeued crawlable URL fails, the URL is added to
\* failed, nothing is added to visited, no page record is written, no child
\* is enqueued, the item is acknowledged, and the worker is not ended: it
\* goes on with its loop unless the run is over.
C7_FetchFailure ==
    /\ [][ \A w \in DOMAIN wpc :
              (wpc[w] = "fetching" /\ wpc'[w] \notin {"fetching", "recorded", "raised"})
                  => /\ curr[w].url \in failed_urls'
                     /\ visited_urls' = visited_urls
                     /\ files' = files
                     /\ queue' = queue
                     /\ unfinished' = unfinished - 1
                     /\ wpc'[w] = "closing"
                     /\ \A v \in DOMAIN wpc : v # w => wpc'[v] = wpc[v]
                     /\ crawlPc' = crawlPc
         ]_vars
    /\ [](\A w \in DOMAIN wpc :
              (wpc[w] = "closing" /\ ~cancelled) => ENABLED WorkerRun(w))

\* A fetch has just failed during a run: its worker is closing its client
\* and the URL is in failed.
C7_Witness ==
    /\ failed_urls # {}
    /\ \E w \in DOMAIN wpc : wpc[w] = "closing"
    /\ crawlPc = "join"

\* The items a worker has taken from the frontier and not yet acknowledged.
InHand == { w \in DOMAIN wpc : wpc[w] \in {"fetching", "recorded"} }

\* C8: every dequeued item is acknowledged exactly once whatever its outcome:
\* during a run the unacknowledged items are those still on the frontier and
\* those a worker is still working on.
C8_AckedOnce ==
    crawlPc \in {"join", "gather"} =>
        unfinished = Len(queue) + Cardinality(InHand)

\* C9: a local crawl() that has been called returns: until it has, a step of
\* the run is possible.
C9_CrawlReturns == crawlPc \in {"join", "gather"} => ENABLED RunNext

\* C10: crawl() returns only with the run's frontier empty, every item
\* acknowledged, no item in a worker's hands and every worker ended; after
\* the return no worker can take a step.
C10_QuiescentAtReturn ==
    /\ [][ (crawlPc # "returned" /\ crawlPc' = "returned")
              => /\ queue = <<>>
                 /\ unfinished = 0
                 /\ \A w \in DOMAIN wpc : Terminated(w) /\ curr[w] = NoItem
         ]_vars
    /\ [](crawlPc = "returned"
              => \A w \in DOMAIN wpc : Terminated(w) /\ ~ENABLED WorkerStep(w))

\* A run returned after a worker left its loop and another was cancelled
\* while blocked on the empty queue, with pages visited.
C10_Witness ==
    /\ crawlPc = "returned"
    /\ \E w \in DOMAIN wpc : wpc[w] = "exited"
    /\ \E w \in DOMAIN wpc : wpc[w] = "cancelled"
    /\ NumVisited > 0

\* The pages a hub page links to.
LinkedPages == { u \in ChildUrls(base_url) : StartsWithHttp(u) }

\* C11: one worker, a seed linking to k in-scope pages without links, every
\* fetch succeeding and 1 <= max_pages <= k + 1: after crawl() visited is the
\* seed and max_pages - 1 linked pages, the other k - max_pages + 1 linked
\* pages are the frontier, once each, and ignored and failed are empty.
C11_HubScenario ==
    ( /\ crawlPc = "returned"
      /\ n_workers = 1
      /\ failed_urls = {}
      /\ Filepath(base_url) \in DOMAIN files
      /\ files[Filepath(base_url)].type = "html"
      /\ 1 <= max_pages
      /\ max_pages <= Cardinality(LinkedPages) + 1 )
    => /\ base_url \in DOMAIN visited_urls
       /\ DOMAIN visited_urls \subseteq {base_url} \cup LinkedPages
       /\ NumVisited = max_pages
       /\ Len(queue) = Cardinality(LinkedPages) - max_pages + 1
       /\ Range([i \in 1..Len(queue) |-> queue[i].url])
              = LinkedPages \ DOMAIN visited_urls
       /\ ignored_urls = <<>>

\* The scenario of the specification: three links, max_pages = 2.
C11_Witness ==
    /\ crawlPc = "returned"
    /\ base_url = Hub(3)
    /\ max_pages = 2
    /\ failed_urls = {}
    /\ NumVisited = 2
    /\ Len(queue) = 2

\* The metadata file of this crawl records the crawl as it is in memory.
SidecarCurrent ==
    /\ MetadataFile(output_dir, crawl_id) \in DOMAIN sidecars
    /\ LET metadata == sidecars[MetadataFile(output_dir, crawl_id)]
       IN  /\ metadata.visited_urls = visited_urls
           /\ metadata.ignored_urls = ignored_urls
           /\ metadata.queue = queue
           /\ metadata.crawl_id = crawl_id
           /\ metadata.base_url = base_url
           /\ metadata.allowed_urls = allowed_urls
           /\ metadata.banned_urls = banned_urls
           /\ metadata.n_workers = n_workers
           /\ metadata.max_pages = max_pages
           /\ metadata.render_js = render_js
           /\ metadata.output_dir = output_dir

\* C12: after a completed local run the frontier is exactly the items routed
\* to the leftover queue during that run, ignored is exactly the URLs routed
\* to the ignored queue during that run, and the metadata file records the
\* same visited, ignored, frontier and configuration.
C12_RunPersisted ==
    crawlPc = "returned"
    => /\ queue = leftover_queue
       /\ ignored_urls = ignored_queue
       /\ SidecarCurrent

\* A run returned with items left over and URLs ignored.
C12_Witness ==
    /\ crawlPc = "returned"
    /\ leftover_queue # <<>>
    /\ ignored_queue # <<>>
    /\ NumVisited > 0
    /\ MetadataFile(output_dir, crawl_id) \in DOMAIN sidecars

\* crawl() returns from a run that started from the frontier an earlier run
\* left: the metadata file still records that run's visited pages and
\* leftover items.
ResumedRunReturns ==
    /\ crawlPc = "gather"
    /\ crawlPc' = "returned"
    /\ MetadataFile(output_dir, crawl_id) \in DOMAIN sidecars
    /\ sidecars[MetadataFile(output_dir, crawl_id)].visited_urls # <<>>
    /\ sidecars[MetadataFile(output_dir, crawl_id)].queue # <<>>

\* C13: after a run that left items in the frontier, set_max_pages and a
\* second crawl() resume from those items: every visited URL stays in visited
\* with the same file path, no worker starts fetching a URL that is in
\* visited, crawl() does not put the seed on the frontier again, and when the
\* resumed run returns the cap is reached or the frontier is empty.
C13_ResumeFromLeftover ==
    [][ /\ \A u \in DOMAIN visited_urls :
              u \in DOMAIN visited_urls' /\ visited_urls'[u] = visited_urls[u]
        /\ \A w \in Workers :
              (wpc[w] # "fetching" /\ wpc'[w] = "fetching")
              => curr'[w].url \notin DOMAIN visited_urls
        /\ (crawlPc = "returned" /\ crawlPc' # "returned")
              => (queue' = queue /\ unfinished' = unfinished)
        /\ ResumedRunReturns
              => (NumVisited' >= max_pages' \/ queue' = <<>>) ]_vars

\* C14: from_metadata applied to the metadata file to_metadata wrote for the
\* current state yields a Crawl with the same configuration, the same visited
\* map, the same set of ignored URLs and the same frontier items in the same
\* order; the crawl() that follows starts from exactly that frontier, waits for
\* exactly its items and what they discover, and returns with it drained.
C14_MetadataRoundTrip ==
    [][ /\ (FromMetadata(crawl_id, output_dir) /\ SidecarCurrent)
              => /\ config' = config
                 /\ visited_urls' = visited_urls
                 /\ Range(ignored_urls') = Range(ignored_urls)
                 /\ queue' = queue
                 /\ unfinished' = Len(queue')
                 /\ crawlPc' = "idle"
        /\ (crawlPc = "idle" /\ crawlPc' \in {"join", "gather"})
              => (queue' = queue /\ unfinished' = Len(queue))
        /\ (crawlPc = "gather" /\ crawlPc' = "returned")
              => (queue = <<>> /\ unfinished = 0) ]_vars

\* A Crawl restored from the metadata of a run that visited a page, ignored a
\* URL and left an item in the frontier.
C14_Witness ==
    /\ lookup.call = "from_metadata"
    /\ lookup.result = "Crawl"
    /\ crawlPc = "idle"
    /\ NumVisited > 0
    /\ queue # <<>>
    /\ ignored_urls # <<>>
    /\ SidecarCurrent

\* C15: from_metadata for a crawl id whose metadata file is absent raises
\* FileNotFoundError and constructs nothing: the Crawl state, the page records
\* and the metadata files are unchanged. get_crawl goes to the remote lookup
\* exactly when the file is absent; any other failure is raised as it is.
C15_AbsentSidecar ==
    [][ \A id \in CrawlIds :
          /\ ( /\ FromMetadata(id, DefaultDir)
               /\ MetadataFile(DefaultDir, id) \notin DOMAIN sidecars )
             => (lookup'.result = "FileNotFoundError" /\ NothingConstructed)
          /\ GetCrawl(id)
             => /\ lookup'.result = "from_cloud"
                   <=> MetadataFile(DefaultDir, id) \notin DOMAIN sidecars
                /\ lookup'.result # "Crawl" => NothingConstructed ]_vars

\* get_crawl went to the remote lookup for an id without a metadata file,
\* next to a crawl that has run and has its metadata file.
C15_Witness ==
    /\ lookup.call = "get_crawl"
    /\ lookup.result = "from_cloud"
    /\ MetadataFile(DefaultDir, lookup.crawl_id) \notin DOMAIN sidecars
    /\ MetadataFile(output_dir, crawl_id) \in DOMAIN sidecars
    /\ crawlPc = "returned"

\* C16: status() on a local Crawl leaves visited, failed, ignored, the
\* frontier and its order, the configuration, the page records and the
\* metadata files unchanged, and returns num_visited = |visited|, num_ignored
\* = the number of ignored entries, num_failed = |failed| and num_queued = the
\* number of frontier items of the state it is called in.
C16_StatusIsRead ==
    [][ Status
        => /\ UNCHANGED <<config, sidecars, files, queue, unfinished,
                          visited_urls, failed_urls, ignored_urls, crawlPc>>
           /\ Len(status_json') = 1
           /\ status_json'[1].num_visited = NumVisited
           /\ status_json'[1].num_ignored = Len(ignored_urls)
           /\ status_json'[1].num_failed = Cardinality(failed_urls)
           /\ status_json'[1].num_queued = Len(queue) ]_vars

\* status() was called after a run that ignored the same URL twice and left
\* an item in the frontier.
C16_Witness ==
    /\ status_json # <<>>
    /\ crawlPc = "returned"
    /\ status_json[1].num_visited > 0
    /\ status_json[1].num_queued > 0
    /\ status_json[1].num_ignored > Cardinality(Range(ignored_urls))

\* C17: a worker never puts on the frontier an item whose URL is a key of
\* visited: every item a step appends to the queue has a URL that is not in
\* visited when it is appended.
C17_NoVisitedEnqueued ==
    [][ Len(queue') > Len(queue)
        => \A i \in (Len(queue) + 1)..Len(queue') :
              queue'[i].url \notin DOMAIN visited_urls ]_vars

\* C18: within one crawl no two workers are fetching the same URL at the
\* same time, and no worker completes the fetch of a URL that is already in
\* visited, so that no URL is fetched and recorded twice.
C18_FetchedOnce ==
    [][ /\ \A v, w \in Workers :
              (v # w /\ wpc'[v] = "fetching" /\ wpc'[w] = "fetching")
              => curr'[v].url # curr'[w].url
        /\ \A w \in Workers :
              (wpc[w] = "fetching" /\ wpc'[w] \in {"recorded", "raised"})
              => curr[w].url \notin DOMAIN visited_urls ]_vars

\* C19: an in-scope URL that is not in visited and is dequeued when
\* |visited| >= max_pages is appended to the leftover queue with its parent
\* chain unchanged, no fetch is started for it, nothing is removed from the
\* leftover queue during the run, and the leftover queue is the frontier when
\* crawl() returns.
C19_LeftoverKept ==
    [][ (crawlPc = "join" \/ crawlPc = "gather") =>
        (  /\ Len(leftover_queue) <= Len(leftover_queue')
           /\ SubSeq(leftover_queue', 1, Len(leftover_queue)) = leftover_queue
           /\ \A i \in 1..(Len(queue) - Len(queue')) :
                 ( /\ InScope(queue[i].url)
                   /\ queue[i].url \notin DOMAIN visited_urls
                   /\ NumVisited >= max_pages )
                 => /\ \E j \in (Len(leftover_queue) + 1)..Len(leftover_queue') :
                          leftover_queue'[j] = queue[i]
                    /\ \A w \in Workers :
                          wpc'[w] = "fetching"
                          => (wpc[w] = "fetching" /\ curr'[w] = curr[w])
           /\ crawlPc' = "returned" => queue' = leftover_queue ) ]_vars

\* crawl() returned at the cap with an in-scope, unvisited item found on a
\* page in its frontier.
C19_Witness ==
    /\ crawlPc = "returned"
    /\ max_pages > 0
    /\ NumVisited >= max_pages
    /\ \E i \in 1..Len(queue) :
          /\ InScope(queue[i].url)
          /\ queue[i].url \notin DOMAIN visited_urls
          /\ queue[i].parent_urls # <<>>
          /\ urlparse(queue[i].url).netloc # urlparse(base_url).netloc

\* The items on the frontier or in the leftover queue.
PendingItems == Range(queue) \cup Range(leftover_queue)

\* The parent chains of the pending items: at most one item has an empty
\* chain and it is the seed; a non-empty chain starts with the seed URL and
\* holds visited URLs only.  Once crawl() has returned, the leftover queue
\* and the frontier are one queue (line 295).
ChainsWellFormed ==
    /\ \A item \in PendingItems :
          /\ item.parent_urls = <<>> => item.url = base_url
          /\ item.parent_urls # <<>>
             => /\ item.parent_urls[1] = base_url
                /\ \A k \in 1..Len(item.parent_urls) :
                      item.parent_urls[k] \in DOMAIN visited_urls
    /\ Cardinality({ i \in 1..Len(queue) : queue[i].parent_urls = <<>> })
         + ( IF crawlPc = "returned" THEN 0
             ELSE Cardinality({ i \in 1..Len(leftover_queue) :
                                  leftover_queue[i].parent_urls = <<>> }) ) <= 1

\* C20: in a crawl started from a fresh Crawl the parent chain of an item on
\* the frontier or in leftover is empty only for the seed item; an item put
\* on the frontier has the chain of the page it was found on followed by that
\* page's URL, and an item put in leftover is an item of the frontier as it
\* was; so every non-empty chain starts with the seed URL and every URL in a
\* chain is in visited.
C20_ParentChains ==
    [][ /\ ChainsWellFormed'
        /\ (crawlPc' # "returned" /\ Len(queue') > Len(queue))
             => \E w \in Workers :
                  /\ wpc[w] = "fetching"
                  /\ wpc'[w] # "fetching"
                  /\ \A i \in (Len(queue) + 1)..Len(queue') :
                        queue'[i].parent_urls
                            = Append(curr[w].parent_urls, curr[w].url)
        /\ Len(leftover_queue') > Len(leftover_queue)
             => \A j \in (Len(leftover_queue) + 1)..Len(leftover_queue') :
                  \E i \in 1..Len(queue) : queue[i] = leftover_queue'[j] ]_vars

\* An item found on a page that was itself found on the seed page is on the
\* frontier.
C20_Witness ==
    \E i \in 1..Len(queue) :
        /\ Len(queue[i].parent_urls) = 2
        /\ queue[i].parent_urls[1] = base_url
        /\ queue[i].parent_urls[2] # base_url

\* C21: a link whose resolved form does not begin with http is dropped from
\* the children of a fetched page: no item on the frontier has such a URL and
\* no page record lists one in its child_urls.
C21_NonHttpDropped ==
    /\ \A i \in 1..Len(queue) : StartsWithHttp(queue[i].url)
    /\ \A f \in DOMAIN files :
          \A u \in files[f].child_urls : StartsWithHttp(u)

\* C22: when a fetch succeeds and parsing the body fails, the page is
\* recorded with type other and no children, nothing is put on the frontier,
\* the URL is in visited with the path of its record, and the worker goes on
\* with its loop.
C22_ParseFailure ==
    [][ \A w \in Workers :
          ( /\ wpc[w] = "fetching"
            /\ wpc'[w] = "recorded"
            /\ files'[Filepath(curr[w].url)].type = "other" )
          => /\ files'[Filepath(curr[w].url)].child_urls = {}
             /\ files'[Filepath(curr[w].url)].url = curr[w].url
             /\ queue' = queue
             /\ unfinished' = unfinished
             /\ curr[w].url \in DOMAIN visited_urls'
             /\ visited_urls'[curr[w].url] = Filepath(curr[w].url)
             /\ NumVisited' >= 1 ]_vars

\* crawl() returned after a run in which the second page visited did not
\* parse.
C22_Witness ==
    /\ crawlPc = "returned"
    /\ NumVisited = 2
    /\ \E f \in DOMAIN files :
          /\ files[f].type = "other"
          /\ files[f].parent_urls # <<>>
          /\ files[f].url \in DOMAIN visited_urls

\* C23: get_queued, status and the setters before crawl() do not keep the run
\* from completing: whenever no run is active the number of unacknowledged
\* queue tasks equals the number of frontier items, so that join() returns
\* once the frontier has drained.
C23_UnfinishedIsFrontier ==
    crawlPc \in {"idle", "returned"} => unfinished = Len(queue)

\* C24: get_queued(n) on a local Crawl returns the first min(n, number of
\* frontier items) items in queue order and leaves the frontier with the same
\* items in the same order.
C24_GetQueuedIsRead ==
    [][ \A n \in 0..MaxPages :
          GetQueued(n)
          => /\ urls' = << SubSeq(queue, 1,
                                  IF n < Len(queue) THEN n ELSE Len(queue)) >>
             /\ queue' = queue ]_vars

\* C25: after a completed local run, with any number of workers, no URL of
\* an item in the leftover frontier is in visited.
C25_LeftoverNotVisited ==
    crawlPc = "returned"
    => \A i \in 1..Len(queue) : queue[i].url \notin DOMAIN visited_urls

\* C26: a URL reported as ignored after a completed run is still reported as
\* ignored after a later run of the same Crawl or of its copy restored with
\* from_metadata: no step removes a URL from ignored, and after a run the
\* metadata file lists what get_ignored() returns.
C26_IgnoredKept ==
    [][ /\ Range(ignored_urls) \subseteq Range(ignored_urls')
        /\ crawlPc' = "returned"
             => sidecars'[MetadataFile(output_dir', crawl_id')].ignored_urls
                    = ignored_urls' ]_vars

\* C27: with an API key, when the status read reports a failed page and
\* nothing queued, visited or ignored, crawl() raises "The first page crawled
\* failed"; when it reports something queued, visited or ignored, crawl()
\* returns exactly if nothing is queued or num_visited >= max_pages.
C27_CloudFirstPageFailure ==
    [][ (crawlPc' \in {"poll_first", "poll_run", "raised", "returned"}
         /\ status_json' # <<>>)
        => LET status == status_json'[1]
           IN  /\ (status.num_failed > 0 /\ NothingReported(status))
                    => crawlPc' = "raised"
               /\ ~NothingReported(status)
                    => ( crawlPc' = "returned"
                         <=> ( status.num_queued = 0
                               \/ status.num_visited >= status.max_pages ) )
      ]_vars

====
